---- MODULE Spec2Model ----
(***************************************************************************)
(* Model of the I TURN IN booking backend, src/server.js lines 1-251.      *)
(* (Lines 253-423 of the file are an earlier copy of the same program; the *)
(* handlers modelled here are the ones of the first copy, and              *)
(* calculatePrice, getMiles and mailer are identical in both.)             *)
(*                                                                         *)
(* The server is one Node.js process: a handler runs without interruption  *)
(* from one await to the next, so every action below is the code between   *)
(* two awaits of one request.  The booking file is read and written with   *)
(* synchronous fs calls by this process only; it is modelled as the        *)
(* sequence `bookings` and its reads and writes do not fail.               *)
(*                                                                         *)
(* Distances are fixed-point numbers: an integer m stands for m/MilesScale *)
(* miles.  Optional fields of a JSON object are <<>> (absent) or <<v>>.    *)
(***************************************************************************)
EXTENDS Integers, Sequences, FiniteSets, TLC

\* ---------------------------------------------------------------- bounds
MaxCreates == 2
MaxWebhooks == 2
MaxTime == 1
NegPriceMiles == 200
MaxPriceMiles == 7200

\* ------------------------------------------------------------- constants
MilesScale == 1000
BASE_PRICE_CENTS == 1000
BASE_MILES == 5
PER_MILE_CENTS == 100
SUPPLY_PRICES == [box |-> 300, mailer |-> 100, tape |-> 50, labelPrint |-> 50]
METERS_PER_MILE_X100 == 160934

SupplyItems == {"box", "mailer", "tape", "labelPrint"}

Absent == <<>>
Some(v) == <<v>>

VARIABLES
  bookings,   \* contents of data/bookings.json: a sequence of records
  intents,    \* payment intents created at the processor
  emails,     \* the set of emails delivered by the transport
  now,        \* the clock read by new Date()
  nextUuid,   \* number of the next identifier uuidv4() draws
  mapsKey,    \* GOOGLE_MAPS_API_KEY is set
  smtp,       \* SMTP_USER and SMTP_PASS are set
  creates,    \* POST /api/bookings requests, by slot
  hooks,      \* POST /api/stripe/webhook requests, by slot
  confirmed,  \* history: store positions a success event has marked paid
  pMiles,     \* argument miles of a call of calculatePrice
  pSupplies,  \* argument supplies of that call
  pPrice      \* its result, Absent before the call

sysVars == <<bookings, intents, emails, now, nextUuid, mapsKey, smtp,
             creates, hooks, confirmed>>
priceVars == <<pMiles, pSupplies, pPrice>>
vars == <<bookings, intents, emails, now, nextUuid, mapsKey, smtp,
          creates, hooks, confirmed, pMiles, pSupplies, pPrice>>

\* ------------------------------------------------------------ arithmetic
Max(a, b) == IF a >= b THEN a ELSE b

\* Math.ceil(n / d) for d > 0 and any integer n
CeilDiv(n, d) == -((-n) \div d)

FloorDiv(n, d) == n \div d

\* Math.max(0, miles - BASE_MILES), in 1/MilesScale miles
ExtraMilesUnclamped(miles) == miles - BASE_MILES * MilesScale

ExtraMiles(miles) == Max(0, miles - BASE_MILES * MilesScale)

\* Math.ceil(extraMiles * PER_MILE_CENTS)
MileChargeFloor(extra) == FloorDiv(extra * PER_MILE_CENTS, MilesScale)

MileCharge(extra) == CeilDiv(extra * PER_MILE_CENTS, MilesScale)

\* one `if (supplies?.item) total += SUPPLY_PRICES.item` statement
AddSupply(total, supplies, item) ==
  IF item \in supplies THEN total + SUPPLY_PRICES[item] ELSE total

\* calculatePrice(miles, supplies); supplies is the set of truthy flags
\* (an undefined supplies object selects nothing, like the empty set)
calculatePrice(miles, supplies) ==
  LET extraMiles == ExtraMiles(miles)
      t0 == BASE_PRICE_CENTS + MileCharge(extraMiles)
      t1 == AddSupply(t0, supplies, "box")
      t2 == AddSupply(t1, supplies, "mailer")
      t3 == AddSupply(t2, supplies, "tape")
      t4 == AddSupply(t3, supplies, "labelPrint")
  IN  t4

\* ------------------------------------------------------------ the store
UuidNames == <<"u1", "u2", "u3", "u4", "u5", "u6">>
ClientId == "client-chosen"
UnknownId == "unknown"
AdminAddress == "admin"

\* object spread: a key of req.body replaces the key written before it
Spread(dflt, opt) == IF opt = Absent THEN dflt ELSE opt[1]

\* the object literal pushed by POST /api/bookings
NewBookingSpreadLast(bookingId, t, body, miles, amount) ==
  [bookingId    |-> Spread(bookingId, body.bookingId),
   status       |-> Spread("pending", body.status),
   createdAtISO |-> Some(t),
   paidAtISO    |-> body.paidAtISO,
   email        |-> body.email,
   address      |-> body.address,
   supplies     |-> body.supplies,
   miles        |-> Spread(miles, body.miles),
   amountCents  |-> Spread(amount, body.amountCents)]

NewBooking(bookingId, t, body, miles, amount) ==
  [bookingId    |-> Spread(bookingId, body.bookingId),
   status       |-> Spread("pending", body.status),
   createdAtISO |-> Some(t),
   paidAtISO    |-> body.paidAtISO,
   email        |-> body.email,
   address      |-> body.address,
   supplies     |-> body.supplies,
   miles        |-> miles,
   amountCents  |-> amount]

\* const bookings = readBookings(); bookings.push(record)
PushBookingReset(bs, rec) == <<rec>>

PushBookingStale(bs, rec) ==
  IF Len(bs) = 0 THEN <<rec>> ELSE Append(SubSeq(bs, 1, Len(bs) - 1), rec)

PushBooking(bs, rec) == Append(bs, rec)

\* the collection written by the create handler once the payment-intent
\* request has settled: a throw at line 130 skips lines 141-151
BookingsAfterIntentAlways(bs, rec, ok) == PushBooking(bs, rec)

BookingsAfterIntent(bs, rec, ok) == IF ok THEN PushBooking(bs, rec) ELSE bs

\* bookings.findIndex((b) => b.bookingId === bookingId); 0 stands for -1
FindIndexOrLast(bs, id) ==
  IF \E i \in 1..Len(bs) : bs[i].bookingId = id
    THEN CHOOSE i \in 1..Len(bs) :
           /\ bs[i].bookingId = id
           /\ \A j \in 1..(i - 1) : bs[j].bookingId # id
    ELSE Len(bs)

FindIndex(bs, id) ==
  IF \E i \in 1..Len(bs) : bs[i].bookingId = id
    THEN CHOOSE i \in 1..Len(bs) :
           /\ bs[i].bookingId = id
           /\ \A j \in 1..(i - 1) : bs[j].bookingId # id
    ELSE 0

\* { ...booking, status: "paid", paidAtISO: new Date().toISOString() }
MarkPaidStatusOnly(booking, t) == [booking EXCEPT !.status = "paid"]

MarkPaidTouchCreated(booking, t) ==
  [booking EXCEPT !.status = "paid", !.paidAtISO = Some(t),
                  !.createdAtISO = Some(t)]

MarkPaid(booking, t) ==
  [booking EXCEPT !.status = "paid", !.paidAtISO = Some(t)]

BUSINESS_ORIGIN_ADDRESS == "415 Pisgah Church Rd, Greensboro, NC 27455"

\* getMiles(origin, destination) when GOOGLE_MAPS_API_KEY is not set
getMilesWithoutKeyByAddress(origin, destination) ==
  IF destination = "123 Main St" THEN 0 ELSE (BASE_MILES + 1) * MilesScale

getMilesWithoutKey(origin, destination) == 0

\* meters / 1609.34, truncated to the fixed-point resolution
MetersToMiles(meters) == (meters * 100 * MilesScale) \div METERS_PER_MILE_X100

\* ------------------------------------------------------------- responses
NoResponse == [status |-> 0, body |-> "", bookingId |-> "", amountCents |-> 0]
Created(id, amount) ==
  [status |-> 200, body |-> "booking", bookingId |-> id, amountCents |-> amount]
CreateFailed ==
  [status |-> 500, body |-> "Failed to create booking", bookingId |-> "",
   amountCents |-> 0]
Received ==
  [status |-> 200, body |-> "received:true", bookingId |-> "", amountCents |-> 0]
SignatureError ==
  [status |-> 400, body |-> "Webhook Error", bookingId |-> "", amountCents |-> 0]
HandlerFailed ==
  [status |-> 500, body |-> "Webhook handler failed", bookingId |-> "",
   amountCents |-> 0]

\* ---------------------------------------------------------------- inputs
BodyPlain(s) ==
  [email |-> "customer", address |-> "123 Main St", supplies |-> s,
   bookingId |-> Absent,
   status |-> Absent, paidAtISO |-> Absent, miles |-> Absent,
   amountCents |-> Absent]

\* a body that also carries the keys the handler writes itself
BodyOverriding ==
  [BodyPlain({"box", "tape"}) EXCEPT !.address = "9 Far Away Rd",
     !.status = Some("paid"), !.paidAtISO = Some(0), !.miles = Some(0),
     !.amountCents = Some(1)]

\* request bodies a client can send; known: the identifiers it can name
Bodies(known) ==
  {BodyPlain({}), BodyOverriding}
    \cup {[BodyPlain({}) EXCEPT !.bookingId = Some(id)] : id \in known}

StoredIds == {bookings[i].bookingId : i \in 1..Len(bookings)}

\* results of the distance request: it throws (Absent), or the reply carries
\* meters (a reply without the distance field counts as 0 meters)
LookupMeters == {0, 8690}
LookupOutcomes == {Absent} \cup {Some(m) : m \in LookupMeters}

EventTypes == {"payment_intent.succeeded", "payment_intent.payment_failed"}

\* webhook requests: any payload with a bad signature, or an event of the
\* processor, whose metadata may name any identifier
Events(known) ==
  [sigValid : BOOLEAN, type : EventTypes, bookingId : known \cup {UnknownId}]

IdleCreate ==
  [pc |-> "idle", body |-> BodyPlain({}), bookingId |-> "", miles |-> 0,
   amount |-> 0, fault |-> "none", res |-> NoResponse]

\* lookup: "none" before line 185 has run, then whether idx >= 0
IdleHook ==
  [pc |-> "idle", sigValid |-> FALSE, lookup |-> "none", booking |-> Absent,
   res |-> NoResponse]

Init ==
  /\ bookings = <<>>
  /\ intents = <<>>
  /\ emails = {}
  /\ now = 0
  /\ nextUuid = 1
  /\ mapsKey \in BOOLEAN
  /\ smtp \in BOOLEAN
  /\ creates = [k \in 1..MaxCreates |-> IdleCreate]
  /\ hooks = [k \in 1..MaxWebhooks |-> IdleHook]
  /\ confirmed = {}
  /\ pMiles = 0
  /\ pSupplies = {}
  /\ pPrice = Absent

\* ------------------------------------------------- POST /api/bookings
KnownIds == StoredIds \cup {ClientId}

CreateDone(fault, res) ==
  [IdleCreate EXCEPT !.pc = "done", !.fault = fault, !.res = res]

\* lines 125-130 up to the first await that waits for the network
CreateStart(k, body) ==
  /\ creates[k].pc = "idle"
  /\ \A j \in 1..(k - 1) : creates[j].pc # "idle"
  /\ nextUuid' = nextUuid + 1
  /\ LET bookingId == UuidNames[nextUuid] IN
       IF mapsKey
         THEN creates' = [creates EXCEPT ![k] =
                [@ EXCEPT !.pc = "getMiles", !.body = body,
                          !.bookingId = bookingId]]
         ELSE LET miles == getMilesWithoutKey(BUSINESS_ORIGIN_ADDRESS,
                                               body.address) IN
              creates' = [creates EXCEPT ![k] =
                [@ EXCEPT !.pc = "createIntent", !.body = body,
                          !.bookingId = bookingId, !.miles = miles,
                          !.amount = calculatePrice(miles, body.supplies)]]
  /\ UNCHANGED <<bookings, intents, emails, now, mapsKey, smtp, hooks,
                 confirmed, priceVars>>

\* the fetch of getMiles settles: lines 64-67, 127-130, or the catch
GetMilesDone(k, out) ==
  /\ creates[k].pc = "getMiles"
  /\ IF out = Absent
       THEN creates' = [creates EXCEPT ![k] = CreateDone("lookup", CreateFailed)]
       ELSE LET miles == MetersToMiles(out[1]) IN
            creates' = [creates EXCEPT ![k] =
              [@ EXCEPT !.pc = "createIntent", !.miles = miles,
                        !.amount = calculatePrice(miles, creates[k].body.supplies)]]
  /\ UNCHANGED <<bookings, intents, emails, now, nextUuid, mapsKey, smtp,
                 hooks, confirmed, priceVars>>

\* stripe.paymentIntents.create settles: lines 130-157, or the catch
CreateIntentDone(k, ok) ==
  /\ creates[k].pc = "createIntent"
  /\ LET c == creates[k] IN
       IF ~ok
         THEN /\ creates' = [creates EXCEPT ![k] = CreateDone("payment", CreateFailed)]
              /\ bookings' = BookingsAfterIntent(bookings,
                    NewBooking(c.bookingId, now, c.body, c.miles, c.amount), FALSE)
              /\ UNCHANGED <<intents, now>>
         ELSE \E t \in now..MaxTime :
              /\ now' = t
              /\ intents' = Append(intents,
                              [bookingId |-> c.bookingId, amount |-> c.amount])
              /\ bookings' = BookingsAfterIntent(bookings,
                    NewBooking(c.bookingId, t, c.body, c.miles, c.amount), TRUE)
              /\ creates' = [creates EXCEPT ![k] =
                              CreateDone("none", Created(c.bookingId, c.amount))]
  /\ UNCHANGED <<emails, nextUuid, mapsKey, smtp, hooks, confirmed, priceVars>>

\* ---------------------------------------------- POST /api/stripe/webhook
HookDone(sigValid, lookup, res) ==
  [IdleHook EXCEPT !.pc = "done", !.sigValid = sigValid, !.lookup = lookup,
                   !.res = res]

\* stripe.webhooks.constructEvent returns the event (TRUE) or throws
constructEventUnverified(ev) == TRUE

constructEvent(ev) == ev.sigValid

\* event.type === "payment_intent.succeeded"
IsSuccessEventAnyType(ev) == TRUE

IsSuccessEvent(ev) == ev.type = "payment_intent.succeeded"

\* mailer(): a transport, or null when the credentials are missing
MailerConfigured == smtp

\* a delivered message; req is the webhook request that sent it
CustomerEmail(k, booking) ==
  [kind |-> "customer", to |-> booking.email,
   bookingId |-> booking.bookingId, req |-> k]

AdminEmail(k, booking) ==
  [kind |-> "admin", to |-> AdminAddress,
   bookingId |-> booking.bookingId, req |-> k]

\* lines 166-205: from the request to the first sendMail, or to the response
WebhookReceive(k, ev) ==
  /\ hooks[k].pc = "idle"
  /\ \A j \in 1..(k - 1) : hooks[j].pc # "idle"
  /\ IF ~constructEvent(ev)
       THEN /\ hooks' = [hooks EXCEPT ![k] =
                          HookDone(ev.sigValid, "none", SignatureError)]
            /\ UNCHANGED <<bookings, now, confirmed>>
       ELSE IF ~IsSuccessEvent(ev)
         THEN /\ hooks' = [hooks EXCEPT ![k] =
                            HookDone(ev.sigValid, "none", Received)]
              /\ UNCHANGED <<bookings, now, confirmed>>
         ELSE LET idx == FindIndex(bookings, ev.bookingId) IN
              IF idx = 0
                THEN /\ hooks' = [hooks EXCEPT ![k] =
                                   HookDone(ev.sigValid, "missing", Received)]
                     /\ UNCHANGED <<bookings, now, confirmed>>
                ELSE \E t \in now..MaxTime :
                     /\ now' = t
                     /\ bookings' = [bookings EXCEPT ![idx] = MarkPaid(@, t)]
                     /\ confirmed' = confirmed \cup {idx}
                     /\ IF MailerConfigured
                          THEN hooks' = [hooks EXCEPT ![k] =
                                 [@ EXCEPT !.pc = "customerSend",
                                           !.sigValid = ev.sigValid,
                                           !.lookup = "found",
                                           !.booking = Some(bookings[idx])]]
                          ELSE hooks' = [hooks EXCEPT ![k] =
                                 HookDone(ev.sigValid, "found", Received)]
  /\ UNCHANGED <<intents, emails, nextUuid, mapsKey, smtp, creates, priceVars>>

\* the request after the customer sendMail has settled: the catch at line
\* 214 logs a failure and the handler goes on to the admin send
AfterCustomerSendUncaught(h, ok) ==
  IF ok THEN [h EXCEPT !.pc = "adminSend"]
        ELSE HookDone(h.sigValid, h.lookup, HandlerFailed)

AfterCustomerSend(h, ok) == [h EXCEPT !.pc = "adminSend"]

\* the customer sendMail settles (lines 204-216); the admin send starts
CustomerSendDone(k, ok) ==
  /\ hooks[k].pc = "customerSend"
  /\ emails' = IF ok THEN emails \cup {CustomerEmail(k, hooks[k].booking[1])}
                     ELSE emails
  /\ hooks' = [hooks EXCEPT ![k] = AfterCustomerSend(@, ok)]
  /\ UNCHANGED <<bookings, intents, now, nextUuid, mapsKey, smtp, creates,
                 confirmed, priceVars>>

\* the admin sendMail settles (lines 219-242); the response is sent
AdminSendDone(k, ok) ==
  /\ hooks[k].pc = "adminSend"
  /\ emails' = IF ok THEN emails \cup {AdminEmail(k, hooks[k].booking[1])}
                     ELSE emails
  /\ hooks' = [hooks EXCEPT ![k] =
                  HookDone(hooks[k].sigValid, hooks[k].lookup, Received)]
  /\ UNCHANGED <<bookings, intents, now, nextUuid, mapsKey, smtp, creates,
                 confirmed, priceVars>>

Next ==
  \/ \E k \in 1..MaxCreates : \E body \in Bodies(KnownIds) : CreateStart(k, body)
  \/ \E k \in 1..MaxCreates : \E out \in LookupOutcomes : GetMilesDone(k, out)
  \/ \E k \in 1..MaxCreates : \E ok \in BOOLEAN : CreateIntentDone(k, ok)
  \/ \E k \in 1..MaxWebhooks : \E ev \in Events(KnownIds) : WebhookReceive(k, ev)
  \/ \E k \in 1..MaxWebhooks : \E ok \in BOOLEAN : CustomerSendDone(k, ok)
  \/ \E k \in 1..MaxWebhooks : \E ok \in BOOLEAN : AdminSendDone(k, ok)

Spec == Init /\ [][Next]_vars

\* A pending await settles and the event loop runs its continuation: the
\* distance fetch, the payment-intent request and each sendMail resolve or
\* reject.  Requests arrive whenever clients send them (no fairness).
Settle ==
  \/ \E k \in 1..MaxCreates : \E out \in LookupOutcomes : GetMilesDone(k, out)
  \/ \E k \in 1..MaxCreates : \E ok \in BOOLEAN : CreateIntentDone(k, ok)
  \/ \E k \in 1..MaxWebhooks : \E ok \in BOOLEAN : CustomerSendDone(k, ok)
  \/ \E k \in 1..MaxWebhooks : \E ok \in BOOLEAN : AdminSendDone(k, ok)

FairSpec == Init /\ [][Next]_vars /\ WF_vars(Settle)

\* ------------------------------------------- calls of calculatePrice
PriceMiles == (0 - NegPriceMiles)..MaxPriceMiles

InitPrice ==
  /\ bookings = <<>>
  /\ intents = <<>>
  /\ emails = {}
  /\ now = 0
  /\ nextUuid = 1
  /\ mapsKey = FALSE
  /\ smtp = FALSE
  /\ creates = [k \in 1..MaxCreates |-> IdleCreate]
  /\ hooks = [k \in 1..MaxWebhooks |-> IdleHook]
  /\ confirmed = {}
  /\ pMiles \in PriceMiles
  /\ pSupplies \in SUBSET SupplyItems
  /\ pPrice = Absent

PriceCall ==
  /\ pPrice = Absent
  /\ pPrice' = Some(calculatePrice(pMiles, pSupplies))
  /\ UNCHANGED <<sysVars, pMiles, pSupplies>>

NextPrice == PriceCall

PriceSpec == InitPrice /\ [][NextPrice]_vars

\* ================================================================ claims
Surcharges(supplies) ==
  (IF "box" \in supplies THEN 300 ELSE 0)
    + (IF "mailer" \in supplies THEN 100 ELSE 0)
    + (IF "tape" \in supplies THEN 50 ELSE 0)
    + (IF "labelPrint" \in supplies THEN 50 ELSE 0)

Succeeded == "payment_intent.succeeded"

C2_BasePrice ==
  (pPrice # Absent /\ pMiles <= 5 * MilesScale) =>
    pPrice[1] = 1000 + Surcharges(pSupplies)

\* a negative distance with all four items selected has been priced
C2_Witness ==
  /\ pMiles < 0
  /\ pSupplies = SupplyItems
  /\ pPrice = Some(1500)

\* C3: a webhook request whose signature verification fails is answered
\* with status 400, leaves the booking collection as it was and sends no
\* email, in that step or later.
C3_InvalidSignature ==
  [][\A k \in 1..MaxWebhooks : \A ev \in Events(KnownIds) :
       (WebhookReceive(k, ev) /\ ~ev.sigValid) =>
         /\ hooks'[k].pc = "done"
         /\ hooks'[k].res.status = 400
         /\ bookings' = bookings
         /\ emails' = emails
         /\ \A e \in emails' : e.req # k]_vars

\* a request with a bad signature was rejected while the store held a record
C3_Witness ==
  \E k \in 1..MaxWebhooks :
    /\ hooks[k].pc = "done"
    /\ ~hooks[k].sigValid
    /\ hooks[k].res = SignatureError
    /\ Len(bookings) > 0
    /\ smtp

\* C4: a signature-valid payment_intent.succeeded event whose identifier
\* matches no record is answered with { received: true }, leaves the booking
\* collection unchanged and sends no email.
C4_UnknownBooking ==
  [][\A k \in 1..MaxWebhooks : \A ev \in Events(KnownIds) :
       (/\ WebhookReceive(k, ev)
        /\ ev.sigValid
        /\ ev.type = Succeeded
        /\ \A i \in 1..Len(bookings) : bookings[i].bookingId # ev.bookingId) =>
         /\ hooks'[k].pc = "done"
         /\ hooks'[k].res = Received
         /\ bookings' = bookings
         /\ emails' = emails
         /\ \A e \in emails' : e.req # k]_vars

\* a success event for an unknown identifier was acknowledged while the
\* store held a pending record and the mailer was configured
C4_Witness ==
  \E k \in 1..MaxWebhooks :
    /\ hooks[k].pc = "done"
    /\ hooks[k].sigValid
    /\ hooks[k].lookup = "missing"
    /\ hooks[k].res = Received
    /\ smtp
    /\ \E i \in 1..Len(bookings) : bookings[i].status = "pending"

\* C5: once a success event for a stored booking has been processed, that
\* record is present with status paid in every later state.
C5_PaidStaysPaid ==
  \A i \in confirmed : i <= Len(bookings) /\ bookings[i].status = "paid"

\* the same booking was confirmed by two deliveries and a create came later
C5_Witness ==
  /\ Cardinality({k \in 1..MaxWebhooks :
                    hooks[k].pc = "done" /\ hooks[k].lookup = "found"}) >= 2
  /\ \E i \in confirmed : i < Len(bookings)

\* C6 as stated: after the first success event a record never changes again,
\* its payment timestamp included.
C6_MutatedOnce ==
  [][\A i \in confirmed : bookings'[i] = bookings[i]]_vars

\* C7 as stated: over all deliveries at most one customer email and at most
\* one administrator email are sent for a booking.
C7_NoDuplicateEmails ==
  \A id \in StoredIds : \A kind \in {"customer", "admin"} :
    Cardinality({e \in emails : e.kind = kind /\ e.bookingId = id}) <= 1

\* C8: a create request whose distance lookup or payment-intent creation
\* failed has ended with status 500 and the generic body, and the collection
\* holds exactly one record per create request that succeeded.
C8_FailedCreatePersistsNothing ==
  /\ \A k \in 1..MaxCreates :
       creates[k].fault # "none" =>
         creates[k].pc = "done" /\ creates[k].res = CreateFailed
  /\ Len(bookings) =
       Cardinality({k \in 1..MaxCreates :
                      creates[k].pc = "done" /\ creates[k].fault = "none"})

\* one create failed in the lookup and another in the payment-intent step
C8_Witness ==
  /\ \E k \in 1..MaxCreates : creates[k].fault = "lookup"
  /\ \E k \in 1..MaxCreates : creates[k].fault = "payment"

C10_UniqueIds ==
  \A i, j \in 1..Len(bookings) :
    i # j => bookings[i].bookingId # bookings[j].bookingId

\* C11 as stated: the record persisted by a successful create has status
\* pending and no payment timestamp, whatever the request body carries
\* (a record keeps both until a success event marks it).
C11_PersistedPending ==
  \A i \in 1..Len(bookings) :
    i \notin confirmed =>
      bookings[i].status = "pending" /\ bookings[i].paidAtISO = Absent

\* C12 as stated: after a successful create the identifier on the persisted
\* record equals the identifier in the payment intent's metadata and the
\* bookingId returned to the client.
C12_SameIdentifier ==
  /\ Len(bookings) = Len(intents)
  /\ \A i \in 1..Len(bookings) :
       bookings[i].bookingId = intents[i].bookingId
  /\ \A k \in 1..MaxCreates :
       creates[k].res.status = 200 =>
         \E i \in 1..Len(bookings) :
           /\ intents[i].bookingId = creates[k].res.bookingId
           /\ bookings[i].bookingId = creates[k].res.bookingId

\* C13: without a distance-lookup credential no create request waits for a
\* distance request, getMiles yields 0 for every address, and every create
\* is priced at 1000 cents plus the selected surcharges.
C13_NoKeyBasePrice ==
  ~mapsKey =>
    /\ \A k \in 1..MaxCreates :
         /\ creates[k].pc # "getMiles"
         /\ creates[k].fault # "lookup"
         /\ creates[k].pc = "createIntent" =>
              /\ creates[k].miles = 0
              /\ creates[k].amount = 1000 + Surcharges(creates[k].body.supplies)
    /\ \A i \in 1..Len(bookings) :
         /\ bookings[i].miles = 0
         /\ bookings[i].amountCents = 1000 + Surcharges(bookings[i].supplies)
         /\ intents[i].amount = 1000 + Surcharges(bookings[i].supplies)

\* without a credential, bookings for two different addresses were created,
\* one of them with supplies
C13_Witness ==
  /\ ~mapsKey
  /\ \E i, j \in 1..Len(bookings) :
       /\ bookings[i].address # bookings[j].address
       /\ bookings[i].amountCents = 1000
       /\ bookings[j].amountCents = 1350

\* a store-mutating request answered with success and its change is missing
\* from the collection: a record a create appended, or a paid transition
LostUpdate ==
  \/ Len(bookings) #
       Cardinality({k \in 1..MaxCreates : creates[k].res.status = 200})
  \/ Len(bookings) # Len(intents)
  \/ \E i \in confirmed :
       \/ i > Len(bookings)
       \/ bookings[i].status # "paid"
       \/ bookings[i].paidAtISO = Absent
  \/ \E k \in 1..MaxWebhooks :
       /\ hooks[k].res = Received
       /\ hooks[k].lookup = "found"
       /\ ~\E i \in 1..Len(bookings) : bookings[i].status = "paid"

C15_IndependentSends ==
  [][\A k \in 1..MaxWebhooks : \A ok \in BOOLEAN :
       /\ CustomerSendDone(k, ok) =>
            /\ hooks'[k].pc = "adminSend"
            /\ bookings' = bookings
            /\ emails \subseteq emails'
            /\ ok => CustomerEmail(k, hooks[k].booking[1]) \in emails'
       /\ AdminSendDone(k, ok) =>
            /\ hooks'[k].res = Received
            /\ bookings' = bookings
            /\ emails \subseteq emails'
            /\ ok => AdminEmail(k, hooks[k].booking[1]) \in emails']_vars

\* one delivery sent only its customer email, another only its admin email,
\* and the booking is stored as paid
C15_Witness ==
  /\ \E k \in 1..MaxWebhooks :
       /\ hooks[k].pc = "done"
       /\ {e.kind : e \in {x \in emails : x.req = k}} = {"customer"}
  /\ \E k \in 1..MaxWebhooks :
       /\ hooks[k].pc = "done"
       /\ {e.kind : e \in {x \in emails : x.req = k}} = {"admin"}
  /\ \A e \in emails :
       \E i \in confirmed :
         bookings[i].bookingId = e.bookingId /\ bookings[i].status = "paid"

PaidInStore(id) ==
  \E i \in confirmed :
    /\ i <= Len(bookings)
    /\ bookings[i].bookingId = id
    /\ bookings[i].status = "paid"
    /\ bookings[i].paidAtISO # Absent

\* C16: a success event that matches a record has the record stored as paid
\* with a payment timestamp before any email is attempted and before the
\* response, with or without a mailer; an email is only sent for a booking
\* the store records as paid.
C16_PaidBeforeEmail ==
  /\ \A k \in 1..MaxWebhooks :
       hooks[k].pc \in {"customerSend", "adminSend"} =>
         /\ hooks[k].res = NoResponse
         /\ PaidInStore(hooks[k].booking[1].bookingId)
  /\ \A k \in 1..MaxWebhooks :
       hooks[k].lookup = "found" =>
         \E i \in confirmed :
           /\ i <= Len(bookings)
           /\ bookings[i].status = "paid"
           /\ bookings[i].paidAtISO # Absent
  /\ \A e \in emails : PaidInStore(e.bookingId)

\* a customer send is pending, nothing has been sent or answered yet, and
\* the booking is already stored as paid
C16_Witness ==
  \E k \in 1..MaxWebhooks :
    /\ hooks[k].pc = "customerSend"
    /\ hooks[k].booking[1].status = "pending"
    /\ emails = {}
    /\ PaidInStore(hooks[k].booking[1].bookingId)

\* C17: the collection only grows, by one record appended at the end by a
\* successful create, and every record keeps its position and identifier.
C17_AppendOnly ==
  [][/\ Len(bookings') >= Len(bookings)
     /\ Len(bookings') <= Len(bookings) + 1
     /\ \A i \in 1..Len(bookings) :
          /\ bookings'[i].bookingId = bookings[i].bookingId
          /\ bookings'[i].createdAtISO = bookings[i].createdAtISO
     /\ \A k \in 1..MaxCreates :
          CreateIntentDone(k, TRUE) => Len(bookings') = Len(bookings) + 1
     /\ Len(bookings') = Len(bookings) + 1 =>
          \E k \in 1..MaxCreates : CreateIntentDone(k, TRUE)]_vars

\* two records are stored, the first was marked paid before the second was
\* appended
C17_Witness ==
  /\ Len(bookings) = 2
  /\ 1 \in confirmed
  /\ bookings[1].paidAtISO = Some(0)
  /\ bookings[2].createdAtISO = Some(1)

\* C18: a success event that matches a stored record changes only status
\* and paidAtISO of the first record with that identifier; its other fields
\* and all other records stay as they were.
C18_OnlyStatusAndTimestamp ==
  [][\A k \in 1..MaxWebhooks : \A ev \in Events(KnownIds) :
       (/\ WebhookReceive(k, ev)
        /\ ev.sigValid
        /\ ev.type = Succeeded
        /\ ev.bookingId \in StoredIds) =>
         LET first == CHOOSE i \in 1..Len(bookings) :
                        /\ bookings[i].bookingId = ev.bookingId
                        /\ \A j \in 1..(i - 1) :
                             bookings[j].bookingId # ev.bookingId
         IN  /\ Len(bookings') = Len(bookings)
             /\ \A j \in 1..Len(bookings) :
                  j # first => bookings'[j] = bookings[j]
             /\ bookings'[first].status = "paid"
             /\ bookings'[first].paidAtISO # Absent
             /\ bookings'[first] =
                  [bookings[first] EXCEPT
                     !.status = bookings'[first].status,
                     !.paidAtISO = bookings'[first].paidAtISO]]_vars

\* two records carry the same identifier; a success event marked the first
\* one and left the second pending
C18_Witness ==
  \E i, j \in 1..Len(bookings) :
    /\ i < j
    /\ bookings[i].bookingId = bookings[j].bookingId
    /\ i \in confirmed
    /\ j \notin confirmed
    /\ bookings[i].status = "paid"
    /\ bookings[j].status = "pending"

ExpectedPrice(miles, supplies) ==
  1000 + CeilDiv(Max(0, miles - 5 * MilesScale) * 100, MilesScale)
    + Surcharges(supplies)

\* C19: for every stored record the amountCents equals the amount of its
\* payment intent and the amountCents returned to the client, and is the
\* price of the looked-up miles and the submitted supplies; miles and
\* amountCents keys of the request body do not reach the record.
C19_PriceNotOverridable ==
  /\ Len(bookings) = Len(intents)
  /\ \A i \in 1..Len(bookings) :
       /\ bookings[i].amountCents = intents[i].amount
       /\ bookings[i].amountCents =
            ExpectedPrice(bookings[i].miles, bookings[i].supplies)
       /\ bookings[i].miles \in {0} \cup {MetersToMiles(m) : m \in LookupMeters}
       /\ ~mapsKey => bookings[i].miles = 0
  /\ \A k \in 1..MaxCreates :
       creates[k].res.status = 200 =>
         \E i \in 1..Len(intents) :
           /\ intents[i].bookingId = creates[k].res.bookingId
           /\ intents[i].amount = creates[k].res.amountCents
           /\ bookings[i].amountCents = creates[k].res.amountCents

\* the body carrying miles 0 and amountCents 1 was stored with the looked-up
\* 5.399 miles and the computed 1390 cents
C19_Witness ==
  \E i \in 1..Len(bookings) :
    /\ bookings[i].address = BodyOverriding.address
    /\ bookings[i].miles = 5399
    /\ bookings[i].amountCents = 1390
    /\ intents[i].amount = 1390

\* C20: a signature-valid event of another type is acknowledged with
\* { received: true } and changes nothing: the collection is not written,
\* the clock is not read and no email is sent, whatever its metadata names.
C20_OtherEventTypes ==
  [][\A k \in 1..MaxWebhooks : \A ev \in Events(KnownIds) :
       (WebhookReceive(k, ev) /\ ev.sigValid /\ ev.type # Succeeded) =>
         /\ hooks'[k].pc = "done"
         /\ hooks'[k].res = Received
         /\ bookings' = bookings
         /\ confirmed' = confirmed
         /\ now' = now
         /\ emails' = emails
         /\ \A e \in emails' : e.req # k]_vars

\* an event of another type was acknowledged while the only stored booking
\* was pending and the mailer was configured
C20_Witness ==
  /\ smtp
  /\ Len(bookings) = 1
  /\ bookings[1].status = "pending"
  /\ emails = {}
  /\ \E k \in 1..MaxWebhooks :
       /\ hooks[k].pc = "done"
       /\ hooks[k].sigValid
       /\ hooks[k].lookup = "none"
       /\ hooks[k].res = Received

====
